---- MODULE Spec2Model ----
(***************************************************************************)
(* Model of the semantic search backend (zappa_backend/app.py).            *)
(*                                                                         *)
(* One request is followed from its arrival to its response and, for       *)
(* POST /process-search, through the background task it dispatches.        *)
(* Every outbound call (embedding, search, push delivery) is one step      *)
(* whose outcome is chosen by the environment.                             *)
(***************************************************************************)
EXTENDS Integers, Sequences, FiniteSets, TLC

VARIABLES
    wsConfigured,   \* apigw_management_client is not None (app.py:31-36)
    osConfigured,   \* OPENSEARCH_ENDPOINT is set (app.py:24)
    route,          \* "search" or "process": the endpoint the request hits
    body,           \* request.json
    pc,             \* [h |-> handler position, f |-> background task position]
    resp,           \* the HTTP response of the handler (code 0: none yet)
    outcome,        \* how the embedding call and the search call ended ("" before)
    hits,           \* hits of the search response being formatted
    results,        \* value returned by perform_semantic_search
    message,        \* response_message composed by the background task
    calls,          \* outbound calls made so far, by kind
    notifs,         \* calls of send_websocket_message so far, in order
    ret,            \* return value of the background task ("" while running)
    fn,             \* the client function being called, with its inputs
    at,             \* position in that function ("idle": none is called)
    trace,          \* outbound calls that function has made so far, in order
    retval          \* what that function has returned, raised or collected

\* the request handling of app.py
appvars == <<wsConfigured, osConfigured, route, body, pc, resp, outcome, hits,
             results, message, calls, notifs, ret>>
\* a direct call of a function of opensearch_client.py, bedrock_embeddings.py
\* or llm_summarize_from_opensearch.py
libvars == <<fn, at, trace, retval>>
vars == <<appvars, libvars>>

----------------------------------------------------------------------------
(* Bounds of the model *)

\* longest hit list the search service returns in Spec
MaxHits == 2
\* longest hit list in SpecFormat
MaxFmtHits == 2
\* longest hit list in SpecCompose
MaxComposeHits == 6

(* Program constants *)

\* source.get('content', '')[:200]
SummaryChars == 200
\* results[:5]
TopCap == 5
\* mutant: the sentiment groups are cut like the flat listing
GroupCapOfTop == TopCap
\* positive_results[:3], negative_results[:3]
GroupCap == 3

----------------------------------------------------------------------------
(* JSON values of a hit.  A field of a JSON object is absent, null, or a   *)
(* value; text is a sequence of characters (numbers), scores are integers  *)
(* (thousandths).                                                          *)

Absent(dflt) == [st |-> "absent", v |-> dflt]
Null(dflt) == [st |-> "null", v |-> dflt]
Val(x) == [st |-> "val", v |-> x]

\* dict.get(key, default)
Get(field, default) == IF field.st = "absent" THEN default ELSE field

Min(a, b) == IF a <= b THEN a ELSE b

\* s[:n]
Take(s, n) == SubSeq(s, 1, Min(n, Len(s)))

\* '...'
Ellipsis == <<46, 46, 46>>

Text(n) == [i \in 1..n |-> 97 + (i % 7)]

\* one hit of the search response: hit['_source'] fields and hit['_score']
Hit(title, summary, content, label, sscore, category, score) ==
    [title |-> title, summary |-> summary, content |-> content,
     sentiment_label |-> label, sentiment_score |-> sscore,
     category |-> category, _score |-> score]

----------------------------------------------------------------------------
(* Result formatter: perform_semantic_search, lines 163-180 *)

\* source.get('content', '')[:200] + '...' : evaluated for every hit, before
\* the lookup of 'summary'; slicing a null content raises TypeError
SummaryDefault(source) ==
    LET c == Get(source.content, Val(<<>>))
    IN  IF c.st = "null"
        THEN [raised |-> TRUE, value |-> Val(<<>>)]
        ELSE [raised |-> FALSE, value |-> Val(Take(c.v, SummaryChars) \o Ellipsis)]

FormatHit(hit) ==
    [title |-> Get(hit.title, Val("Untitled")),
     summary |-> Get(hit.summary, SummaryDefault(hit).value),
     content |-> Get(hit.content, Val(<<>>)),
     score |-> Get(hit._score, Val(0)),
     sentiment |-> [label |-> Get(hit.sentiment_label, Val("Unknown")),
                    score |-> Get(hit.sentiment_score, Val(0))],
     category |-> Get(hit.category, Val("Unknown"))]

\* mutant: source['sentiment_label'] instead of source.get(...): KeyError
FormatResultsStrict(hs) ==
    IF \E i \in 1..Len(hs) :
          SummaryDefault(hs[i]).raised \/ hs[i].sentiment_label.st = "absent"
    THEN [raised |-> TRUE, value |-> <<>>]
    ELSE [raised |-> FALSE, value |-> [i \in 1..Len(hs) |-> FormatHit(hs[i])]]

\* the loop over hits: the first hit that raises aborts the loop
FormatResults(hs) ==
    IF \E i \in 1..Len(hs) : SummaryDefault(hs[i]).raised
    THEN [raised |-> TRUE, value |-> <<>>]
    ELSE [raised |-> FALSE, value |-> [i \in 1..Len(hs) |-> FormatHit(hs[i])]]

----------------------------------------------------------------------------
(* Outbound calls.  Each returns [raised, ...]: raised = TRUE is a Python   *)
(* exception leaving the function.                                         *)

BedrockOutcomes == {"vector", "novector", "error"}

\* app.py get_bedrock_embedding: invoke_model raising is re-raised; otherwise
\* response_body.get('embedding') is returned as it is (None when missing)
get_bedrock_embedding(out) ==
    IF out = "error"
    THEN [raised |-> TRUE, value |-> "none"]
    ELSE [raised |-> FALSE, value |-> IF out = "vector" THEN "vector" ELSE "none"]

\* app.py search_opensearch_by_embedding: endpoint check, credentials check,
\* then the signed HTTP POST; a non-ok response raises
search_opensearch_by_embedding(endpoint, credentials, http) ==
    IF ~endpoint
    THEN [raised |-> TRUE, error |-> "endpoint", requested |-> FALSE, value |-> <<>>]
    ELSE IF ~credentials
    THEN [raised |-> TRUE, error |-> "credentials", requested |-> FALSE, value |-> <<>>]
    ELSE IF ~http.ok
    THEN [raised |-> TRUE, error |-> "http", requested |-> TRUE, value |-> <<>>]
    ELSE [raised |-> FALSE, error |-> "", requested |-> TRUE, value |-> http.hits]

DeliveryOutcomes == {"delivered", "gone", "error"}

\* mutant: a delivery failure other than GoneException is not caught
send_websocket_message_reraises(client, delivery) ==
    IF ~client
    THEN [raised |-> FALSE, outcome |-> "unconfigured"]
    ELSE [raised |-> delivery = "error", outcome |-> delivery]

\* send_websocket_message: returns at once without a client; GoneException and
\* every other exception of post_to_connection are caught and printed
send_websocket_message(client, delivery) ==
    IF ~client
    THEN [raised |-> FALSE, outcome |-> "unconfigured"]
    ELSE [raised |-> FALSE, outcome |-> delivery]

\* mutant: the except clause re-raises, as the two client functions do
PerformExceptReraises == [raised |-> TRUE, value |-> <<>>]

\* the except clause of perform_semantic_search: print and return []
PerformExcept == [raised |-> FALSE, value |-> <<>>]

----------------------------------------------------------------------------
(* Message composition: process_semantic_search, lines 227-255 *)

NoMessage == [found |-> 0, query |-> "", sections |-> <<>>]

HasLabel(r, label) == r.sentiment.label = Val(label)

\* '{x:.3f}' raises for a value that is not a number
FormatRaises(f) == f.st # "val"

\* the three lines appended for one listed result
Item(i, r, withSentiment) ==
    [i |-> i, title |-> r.title, summary |-> r.summary, score |-> r.score,
     sentiment |-> IF withSentiment THEN r.sentiment.score ELSE Absent(0)]

ItemRaises(r, withSentiment) ==
    FormatRaises(r.score) \/ (withSentiment /\ FormatRaises(r.sentiment.score))

Section(name, rs, withSentiment) ==
    [name |-> name, items |-> [i \in 1..Len(rs) |-> Item(i, rs[i], withSentiment)]]

SectionRaises(rs, withSentiment) ==
    \E i \in 1..Len(rs) : ItemRaises(rs[i], withSentiment)

ComposeMessage(rs, query) ==
    LET positive_results == SelectSeq(rs, LAMBDA r : HasLabel(r, "POSITIVE"))
        negative_results == SelectSeq(rs, LAMBDA r : HasLabel(r, "NEGATIVE"))
        pos == Take(positive_results, GroupCap)
        neg == Take(negative_results, GroupCap)
        top == Take(rs, TopCap)
        flat == positive_results = <<>> /\ negative_results = <<>>
        parts ==
            (IF positive_results # <<>>
             THEN <<Section("Positive Sentiment Results", pos, TRUE)>> ELSE <<>>)
            \o (IF negative_results # <<>>
                THEN <<Section("Negative Sentiment Results", neg, TRUE)>> ELSE <<>>)
            \o (IF flat THEN <<Section("Top Results", top, FALSE)>> ELSE <<>>)
    IN  IF  \/ SectionRaises(pos, TRUE)
            \/ SectionRaises(neg, TRUE)
            \/ (flat /\ SectionRaises(top, FALSE))
        THEN [raised |-> TRUE, value |-> NoMessage]
        ELSE [raised |-> FALSE,
              value |-> [found |-> Len(rs), query |-> query, sections |-> parts]]

----------------------------------------------------------------------------
(* Inputs *)

Queries == {"", "hello"}
ConnectionIds == {"", "c1"}

\* request.json: nothing (None or {}), a JSON object, or a JSON number
NoBody == [kind |-> "none", hasQuery |-> FALSE, hasConn |-> FALSE,
           query |-> "", connection_id |-> ""]
ScalarBody == [NoBody EXCEPT !.kind = "scalar"]
ObjectBodies ==
    {[kind |-> "object", hasQuery |-> hq, hasConn |-> hc,
      query |-> q, connection_id |-> c] :
        hq \in BOOLEAN, hc \in BOOLEAN, q \in Queries, c \in ConnectionIds}
Bodies ==
    {NoBody, ScalarBody}
    \cup {b \in ObjectBodies : (~b.hasQuery => b.query = "")
                               /\ (~b.hasConn => b.connection_id = "")}

FullHit(label) ==
    Hit(Val("T"), Val(Text(2)), Val(Text(3)), Val(label), Val(900),
        Val("news"), Val(750))
BareHit ==
    Hit(Absent(""), Absent(<<>>), Absent(<<>>), Absent(""), Absent(0),
        Absent(""), Absent(0))

\* hits the search service returns in Spec: complete ones, one with every
\* field missing, one whose sentiment_score is null, one whose content is null
SampleHits ==
    {FullHit("POSITIVE"), FullHit("NEGATIVE"), BareHit,
     [FullHit("POSITIVE") EXCEPT !.sentiment_score = Null(0)],
     [FullHit("NEGATIVE") EXCEPT !.content = Null(<<>>)]}

----------------------------------------------------------------------------
(* State *)

NoResp == [code |-> 0, shape |-> "none", results |-> <<>>, total |-> 0]
ErrorResp(code) == [code |-> code, shape |-> "error", results |-> <<>>, total |-> 0]
NoCalls == [embed |-> 0, search |-> 0, http |-> 0, dispatch |-> 0]

Notification(status, msg, rs, out) ==
    [status |-> status, connection_id |-> body.connection_id, message |-> msg,
     results |-> rs, outcome |-> out]

\* `not body or 'query' not in body`; on a number the `in` test raises TypeError
MissingQuery(b) == b.kind = "none" \/ ~b.hasQuery
\* mutant: /process-search validates the query only
MissingConnUnchecked(b) == FALSE

\* `'connection_id' not in body`
MissingConn(b) == ~b.hasConn

NoFn == [name |-> ""]
NoRet == [raised |-> FALSE, value |-> <<>>]

\* no client function is being called
LibIdle == fn = NoFn /\ at = "idle" /\ trace = <<>> /\ retval = NoRet

InitRequest(r, b, h, f) ==
    /\ wsConfigured \in BOOLEAN
    /\ osConfigured \in BOOLEAN
    /\ route = r
    /\ body = b
    /\ pc = [h |-> h, f |-> f]
    /\ outcome = [embed |-> "", search |-> ""]
    /\ results = <<>>
    /\ message = NoMessage
    /\ notifs = <<>>
    /\ ret = ""

Init ==
    /\ \E r \in {"search", "process"}, b \in Bodies : InitRequest(r, b, "recv", "none")
    /\ resp = NoResp
    /\ hits = <<>>
    /\ calls = NoCalls
    /\ LibIdle

----------------------------------------------------------------------------
(* perform_semantic_search, run by the /search handler (p = "h") or by the *)
(* background task (p = "f")                                               *)

Runs(p) == IF p = "h" THEN route = "search" ELSE route = "process"

\* perform_semantic_search hands r to its caller: a value, or (r.raised) an
\* exception, which lands in the caller's own except clause
PerformReturn(p, r) ==
    IF r.raised
    THEN /\ pc' = [pc EXCEPT ![p] = IF p = "h" THEN "done" ELSE "except"]
         /\ resp' = IF p = "h" THEN ErrorResp(500) ELSE resp
         /\ UNCHANGED results
    ELSE /\ pc' = [pc EXCEPT ![p] = IF p = "h" THEN "notify" ELSE "results"]
         /\ results' = r.value
         /\ UNCHANGED resp

\* mutant: a failed embedding call is attempted a second time
PerformEmbedRetry(p) ==
    /\ Runs(p) /\ pc[p] = "embed"
    /\ \E out \in BedrockOutcomes :
        LET r == get_bedrock_embedding(out)
        IN  /\ calls' = [calls EXCEPT !.embed = @ + 1]
            /\ outcome' = [outcome EXCEPT !.embed = out]
            /\ IF r.raised /\ calls.embed = 0
               THEN UNCHANGED <<pc, resp, results>>
               ELSE IF r.raised
               THEN PerformReturn(p, PerformExcept)
               ELSE IF r.value = "none"
               THEN PerformReturn(p, [raised |-> FALSE, value |-> <<>>])
               ELSE /\ pc' = [pc EXCEPT ![p] = "search"]
                    /\ UNCHANGED <<resp, results>>
    /\ UNCHANGED libvars
    /\ UNCHANGED <<wsConfigured, osConfigured, route, body, hits, message, notifs, ret>>

\* lines 150-153
PerformEmbed(p) ==
    /\ Runs(p) /\ pc[p] = "embed"
    /\ \E out \in BedrockOutcomes :
        LET r == get_bedrock_embedding(out)
        IN  /\ calls' = [calls EXCEPT !.embed = @ + 1]
            /\ outcome' = [outcome EXCEPT !.embed = out]
            /\ IF r.raised
               THEN PerformReturn(p, PerformExcept)
               ELSE IF r.value = "none"
               THEN PerformReturn(p, [raised |-> FALSE, value |-> <<>>])
               ELSE /\ pc' = [pc EXCEPT ![p] = "search"]
                    /\ UNCHANGED <<resp, results>>
    /\ UNCHANGED libvars
    /\ UNCHANGED <<wsConfigured, osConfigured, route, body, hits, message, notifs, ret>>

\* lines 156-158
PerformSearch(p) ==
    /\ Runs(p) /\ pc[p] = "search"
    /\ \E credentials \in BOOLEAN, ok \in BOOLEAN, n \in 0..MaxHits :
       \E hs \in [1..n -> SampleHits] :
        LET http == [ok |-> ok, hits |-> hs]
            r == search_opensearch_by_embedding(osConfigured, credentials, http)
        IN  /\ calls' = [calls EXCEPT !.search = @ + 1,
                                      !.http = @ + (IF r.requested THEN 1 ELSE 0)]
            /\ outcome' = [outcome EXCEPT !.search = IF r.raised THEN r.error ELSE "ok"]
            /\ IF r.raised
               THEN PerformReturn(p, PerformExcept) /\ UNCHANGED hits
               ELSE /\ hits' = r.value
                    /\ pc' = [pc EXCEPT ![p] = "format"]
                    /\ UNCHANGED <<resp, results>>
    /\ UNCHANGED libvars
    /\ UNCHANGED <<wsConfigured, osConfigured, route, body, message, notifs, ret>>

\* lines 160-185
PerformFormat(p) ==
    /\ Runs(p) /\ pc[p] = "format"
    /\ IF hits = <<>>
       THEN PerformReturn(p, [raised |-> FALSE, value |-> <<>>])
       ELSE LET r == FormatResults(hits)
            IN  IF r.raised THEN PerformReturn(p, PerformExcept)
                ELSE PerformReturn(p, r)
    /\ UNCHANGED libvars
    /\ UNCHANGED <<wsConfigured, osConfigured, route, body, outcome, hits,
                   message, calls, notifs, ret>>

----------------------------------------------------------------------------
(* POST /search: search_endpoint *)

\* mutant: total_results counts the raw hits, not the formatted results
SearchResponseCountsHits(rs) ==
    [code |-> 200, shape |-> "results", results |-> rs, total |-> Len(hits)]

\* lines 74-78
SearchResponse(rs) ==
    [code |-> 200, shape |-> "results", results |-> rs, total |-> Len(rs)]

\* lines 55-61, and the except clause of line 80 for a body that is a number
SearchRecv ==
    /\ route = "search" /\ pc.h = "recv"
    /\ IF body.kind = "scalar"
       THEN pc' = [pc EXCEPT !.h = "done"] /\ resp' = ErrorResp(500)
       ELSE IF MissingQuery(body)
       THEN pc' = [pc EXCEPT !.h = "done"] /\ resp' = ErrorResp(400)
       ELSE pc' = [pc EXCEPT !.h = "embed"] /\ UNCHANGED resp
    /\ UNCHANGED libvars
    /\ UNCHANGED <<wsConfigured, osConfigured, route, body, outcome, hits,
                   results, message, calls, notifs, ret>>

\* lines 66-72
SearchNotify ==
    /\ route = "search" /\ pc.h = "notify"
    /\ IF body.connection_id # "" /\ wsConfigured
       THEN \E d \in DeliveryOutcomes :
                LET r == send_websocket_message(wsConfigured, d)
                IN  /\ notifs' = Append(notifs,
                                   Notification("results", NoMessage, results, r.outcome))
                    /\ IF r.raised
                       THEN pc' = [pc EXCEPT !.h = "done"] /\ resp' = ErrorResp(500)
                       ELSE pc' = [pc EXCEPT !.h = "respond"] /\ UNCHANGED resp
       ELSE pc' = [pc EXCEPT !.h = "respond"] /\ UNCHANGED <<resp, notifs>>
    /\ UNCHANGED libvars
    /\ UNCHANGED <<wsConfigured, osConfigured, route, body, outcome, hits,
                   results, message, calls, ret>>

\* lines 74-78
SearchRespond ==
    /\ route = "search" /\ pc.h = "respond"
    /\ resp' = SearchResponse(results)
    /\ pc' = [pc EXCEPT !.h = "done"]
    /\ UNCHANGED libvars
    /\ UNCHANGED <<wsConfigured, osConfigured, route, body, outcome, hits,
                   results, message, calls, notifs, ret>>

----------------------------------------------------------------------------
(* POST /process-search: process_search_endpoint and the task it starts *)

\* lines 288-297: validation, then the dispatch of process_semantic_search
ProcessRecv ==
    /\ route = "process" /\ pc.h = "recv"
    /\ IF body.kind = "scalar"
       THEN pc' = [pc EXCEPT !.h = "done"] /\ resp' = ErrorResp(500)
            /\ UNCHANGED calls
       ELSE IF MissingQuery(body) \/ MissingConn(body)
       THEN pc' = [pc EXCEPT !.h = "done"] /\ resp' = ErrorResp(400)
            /\ UNCHANGED calls
       ELSE /\ pc' = [h |-> "respond", f |-> "queued"]
            /\ calls' = [calls EXCEPT !.dispatch = @ + 1]
            /\ UNCHANGED resp
    /\ UNCHANGED libvars
    /\ UNCHANGED <<wsConfigured, osConfigured, route, body, outcome, hits,
                   results, message, notifs, ret>>

\* mutant: the handler answers only when the task has ended
ProcessRespondWaits ==
    /\ route = "process" /\ pc.h = "respond" /\ pc.f \in {"done", "crashed"}
    /\ resp' = [code |-> 202, shape |-> "accepted", results |-> <<>>, total |-> 0]
    /\ pc' = [pc EXCEPT !.h = "done"]
    /\ UNCHANGED libvars
    /\ UNCHANGED <<wsConfigured, osConfigured, route, body, outcome, hits,
                   results, message, calls, notifs, ret>>

\* lines 299-303
ProcessRespond ==
    /\ route = "process" /\ pc.h = "respond"
    /\ resp' = [code |-> 202, shape |-> "accepted", results |-> <<>>, total |-> 0]
    /\ pc' = [pc EXCEPT !.h = "done"]
    /\ UNCHANGED libvars
    /\ UNCHANGED <<wsConfigured, osConfigured, route, body, outcome, hits,
                   results, message, calls, notifs, ret>>

\* one call of send_websocket_message by the task: on an exception the task
\* goes to onRaise, otherwise to onReturn with return value value
TaskSend(status, msg, rs, onReturn, value, onRaise) ==
    \E d \in DeliveryOutcomes :
        LET r == send_websocket_message(wsConfigured, d)
        IN  /\ notifs' = Append(notifs, Notification(status, msg, rs, r.outcome))
            /\ IF r.raised
               THEN pc' = [pc EXCEPT !.f = onRaise] /\ UNCHANGED ret
               ELSE pc' = [pc EXCEPT !.f = onReturn] /\ ret' = value

\* mutant: the task starts without announcing it
FlowStartSilent ==
    /\ pc.f = "queued"
    /\ pc' = [pc EXCEPT !.f = "embed"]
    /\ UNCHANGED libvars
    /\ UNCHANGED <<wsConfigured, osConfigured, route, body, resp, outcome, hits,
                   results, message, calls, notifs, ret>>

\* lines 208-213
FlowStart ==
    /\ pc.f = "queued"
    /\ TaskSend("processing", NoMessage, <<>>, "embed", ret, "except")
    /\ UNCHANGED libvars
    /\ UNCHANGED <<wsConfigured, osConfigured, route, body, resp, outcome, hits,
                   results, message, calls>>

\* mutant: no return after the no_results notification
FlowNoResultsFallsThrough ==
    /\ pc.f = "results" /\ results = <<>>
    /\ TaskSend("no_results", NoMessage, <<>>, "complete", ret, "except")
    /\ UNCHANGED libvars
    /\ UNCHANGED <<wsConfigured, osConfigured, route, body, resp, outcome, hits,
                   results, message, calls>>

\* lines 218-225
FlowNoResults ==
    /\ pc.f = "results" /\ results = <<>>
    /\ TaskSend("no_results", NoMessage, <<>>, "done", "no_results", "except")
    /\ UNCHANGED libvars
    /\ UNCHANGED <<wsConfigured, osConfigured, route, body, resp, outcome, hits,
                   results, message, calls>>

\* lines 227-255
FlowCompose ==
    /\ pc.f = "results" /\ results # <<>>
    /\ LET r == ComposeMessage(results, body.query)
       IN  IF r.raised
           THEN pc' = [pc EXCEPT !.f = "except"] /\ UNCHANGED message
           ELSE pc' = [pc EXCEPT !.f = "complete"] /\ message' = r.value
    /\ UNCHANGED libvars
    /\ UNCHANGED <<wsConfigured, osConfigured, route, body, resp, outcome, hits,
                   results, calls, notifs, ret>>

\* lines 257-266
FlowSendComplete ==
    /\ pc.f = "complete"
    /\ TaskSend("search_complete", message, results, "done", "success", "except")
    /\ UNCHANGED libvars
    /\ UNCHANGED <<wsConfigured, osConfigured, route, body, resp, outcome, hits,
                   results, message, calls>>

\* lines 268-280; an exception raised here leaves the task
FlowExcept ==
    /\ pc.f = "except"
    /\ TaskSend("search_error", NoMessage, <<>>, "done", "error", "crashed")
    /\ UNCHANGED libvars
    /\ UNCHANGED <<wsConfigured, osConfigured, route, body, resp, outcome, hits,
                   results, message, calls>>

----------------------------------------------------------------------------

Next ==
    \/ SearchRecv
    \/ SearchNotify
    \/ SearchRespond
    \/ ProcessRecv
    \/ ProcessRespond
    \/ \E p \in {"h", "f"} : PerformEmbed(p)
    \/ \E p \in {"h", "f"} : PerformSearch(p)
    \/ \E p \in {"h", "f"} : PerformFormat(p)
    \/ FlowStart
    \/ FlowNoResults
    \/ FlowCompose
    \/ FlowSendComplete
    \/ FlowExcept

Spec == Init /\ [][Next]_vars

----------------------------------------------------------------------------
(* Properties of the request handlers and of the background task *)

ValidSearch == route = "search" /\ body.kind = "object" /\ body.hasQuery
ValidProcess ==
    route = "process" /\ body.kind = "object" /\ body.hasQuery /\ body.hasConn
LacksFields == MissingQuery(body) \/ (route = "process" /\ ~body.hasConn)
CallFailed ==
    outcome.embed = "error" \/ outcome.search \in {"endpoint", "credentials", "http"}
ZeroHits == outcome.search = "ok" /\ hits = <<>>
TerminalStatuses == {"no_results", "search_complete", "search_error"}
WithStatus(S) == {i \in DOMAIN notifs : notifs[i].status \in S}

\* C1: a POST /search whose body has a `query` field is answered, whatever the
\* embedding, search and notification steps did, by an object whose `results`
\* is the list perform_semantic_search returned and whose `total_results` is
\* the length of that list.
C1_SearchResultsShape ==
    (ValidSearch /\ resp.code # 0) =>
        /\ resp.shape = "results"
        /\ resp.results = results
        /\ resp.total = Len(resp.results)

\* C1 witness: two results answered although the notification failed
C1_Witness ==
    /\ ValidSearch /\ resp.shape = "results" /\ resp.total = 2
    /\ notifs # <<>> /\ notifs[1].outcome = "error"

C3_ExactlyOneNotification ==
    (ValidProcess /\ wsConfigured /\ ZeroHits /\ pc.f = "done") =>
        Len(notifs) = 1 /\ notifs[1].status = "no_results"

\* C3 amended: with zero hits the whole flow of a valid /process-search request
\* (push endpoint configured) triggers exactly two notifications to that
\* connection, "processing" and then "no_results"; exactly one has the status
\* no_results.
C3_ProcessingThenNoResults ==
    (ValidProcess /\ wsConfigured /\ ZeroHits) =>
        /\ Cardinality(WithStatus({"no_results"})) <= 1
        /\ \A i \in DOMAIN notifs :
               /\ notifs[i].connection_id = body.connection_id
               /\ notifs[i].outcome # "unconfigured"
        /\ pc.f = "done" =>
               /\ Len(notifs) = 2
               /\ notifs[1].status = "processing"
               /\ notifs[2].status = "no_results"

\* C3 witness: the flow has ended after a search that returned zero hits
C3_Witness == ValidProcess /\ wsConfigured /\ ZeroHits /\ pc.f = "done"

\* C4: a run of the background flow attempts at most one terminal notification
\* (no_results, search_complete or search_error), exactly one once it has
\* ended; the terminal notification comes after the "processing" one and is the
\* last notification of the run, and the run never ends by an exception.
C4_OneTerminalNotification ==
    route = "process" =>
        /\ Cardinality(WithStatus(TerminalStatuses)) <= 1
        /\ \A i \in WithStatus(TerminalStatuses) :
               i = Len(notifs) /\ i > 1 /\ notifs[1].status = "processing"
        /\ WithStatus({"processing"}) \subseteq {1}
        /\ pc.f # "crashed"
        /\ pc.f = "done" => Cardinality(WithStatus(TerminalStatuses)) = 1

\* C4 witness: a run whose message composition failed and whose "processing"
\* notification was not delivered ends with search_error
C4_Witness ==
    /\ pc.f = "done" /\ Len(notifs) = 2
    /\ notifs[1].outcome = "error" /\ notifs[2].status = "search_error"

\* C6: whatever the delivery did (delivered, destination gone, other failure,
\* no push endpoint), the caller of send_websocket_message goes on as after a
\* delivery: the task never takes its except path because of a notification
\* (only when composing the message fails) and returns the value of the branch
\* it was in, and the /search handler answers 200.
C6_SendNeverPropagates ==
    /\ pc.f # "crashed"
    /\ (pc.f = "except" \/ WithStatus({"search_error"}) # {}) =>
           results # <<>> /\ ComposeMessage(results, body.query).raised
    /\ \A i \in DOMAIN notifs :
           LET s == notifs[i].status
           IN  /\ s = "processing" => pc.f # "queued"
               /\ s = "no_results" => pc.f = "done" /\ ret = "no_results"
               /\ s = "search_complete" => pc.f = "done" /\ ret = "success"
               /\ s = "search_error" => pc.f = "done" /\ ret = "error"
               /\ s = "results" => pc.h \in {"respond", "done"} /\ resp.code \in {0, 200}

\* C6 witness: both notifications of a run failed, one by an error and one by
\* a gone destination, and the task returned success
C6_Witness ==
    /\ Len(notifs) = 2 /\ notifs[1].outcome = "error" /\ notifs[2].outcome = "gone"
    /\ notifs[2].status = "search_complete" /\ ret = "success"

\* C7: a POST /process-search with `query` and `connection_id` is answered 202
\* and nothing else, and the handler's response step never waits for the task:
\* it is enabled wherever the task is.
C7_AcceptedWithoutWaiting ==
    ValidProcess =>
        /\ resp.code \in {0, 202}
        /\ pc.h = "respond" => ENABLED ProcessRespond
        /\ pc.h = "done" => resp.code = 202

\* C7 witness: the 202 response exists while the task has not started
C7_Witness == ValidProcess /\ resp.code = 202 /\ pc.f = "queued" /\ notifs = <<>>

\* C8 as stated: when the embedding call or the search call failed, POST
\* /search with a query answers 500.
C8_FailureAnswers500 ==
    (ValidSearch /\ CallFailed /\ resp.code # 0) =>
        resp.code = 500 /\ resp.shape = "error"

\* C8 amended: when the embedding call or the search call fails, the failure is
\* caught inside perform_semantic_search and POST /search answers 200 with an
\* empty result list and total_results 0; /search answers 500 only for an
\* exception raised in the handler itself (a body that is not a JSON object).
C8_FailureAnswersEmpty200 ==
    /\ (ValidSearch /\ CallFailed /\ resp.code # 0) =>
           resp.code = 200 /\ resp.results = <<>> /\ resp.total = 0
    /\ (route = "search" /\ resp.code = 500) => body.kind = "scalar"

\* C8 witness: a non-success HTTP response of the search service, answered 200
C8_Witness == ValidSearch /\ outcome.search = "http" /\ resp.code = 200

\* C10: within one request and the task it starts, the embedding call, the
\* search call, the HTTP request of the search and the task dispatch are each
\* made at most once, and no notification status is sent twice.
C10_NoRetries ==
    /\ calls.embed <= 1 /\ calls.search <= 1 /\ calls.http <= 1 /\ calls.dispatch <= 1
    /\ \A i, j \in DOMAIN notifs : notifs[i].status = notifs[j].status => i = j

\* C10 witness: the embedding call failed, a notification failed, and the run
\* ended with one attempt of each
C10_Witness ==
    /\ outcome.embed = "error" /\ calls.embed = 1 /\ pc.f = "done"
    /\ \E i \in DOMAIN notifs : notifs[i].outcome = "error"

\* C18: a failed embedding or search call looks like an empty search: the
\* result list is empty, the task never takes its except path for it and ends
\* with the no_results notification (same payload as for an empty search) and
\* /search answers 200 with no results; search_error is sent only when the
\* search succeeded with a non-empty result list and composing the message
\* failed.
C18_FailureLooksEmpty ==
    /\ CallFailed =>
           /\ results = <<>> /\ pc.f # "except"
           /\ WithStatus({"search_complete", "search_error"}) = {}
           /\ pc.f = "done" =>
                  /\ ret = "no_results"
                  /\ notifs[Len(notifs)] =
                         [notifs[Len(notifs)] EXCEPT
                             !.status = "no_results", !.message = NoMessage,
                             !.results = <<>>]
           /\ (route = "search" /\ pc.h = "done") => resp.shape = "results"
    /\ WithStatus({"search_error"}) # {} =>
           /\ outcome = [embed |-> "vector", search |-> "ok"]
           /\ results # <<>>
           /\ ComposeMessage(results, body.query).raised

\* C18 witness: the search found no credentials and the task ended with
\* no_results
C18_Witness ==
    /\ outcome.search = "credentials" /\ pc.f = "done"
    /\ Len(notifs) = 2 /\ notifs[2].status = "no_results"

----------------------------------------------------------------------------
(* The result formatter on its own: the /search handler has received the   *)
(* search response and formats hits with any combination of missing fields *)

ClaimFields == {"title", "summary", "sentiment_label", "sentiment_score"}

\* a complete hit without the fields of M
HitWithout(M) ==
    Hit(IF "title" \in M THEN Absent("") ELSE Val("T"),
        IF "summary" \in M THEN Absent(<<>>) ELSE Val(Text(2)),
        Val(Text(3)),
        IF "sentiment_label" \in M THEN Absent("") ELSE Val("NEUTRAL"),
        IF "sentiment_score" \in M THEN Absent(0) ELSE Val(500),
        Val("news"), Val(750))

ContentValues ==
    {Absent(<<>>), Null(<<>>), Val(Text(SummaryChars)), Val(Text(SummaryChars + 1))}

FmtHits ==
    {HitWithout(M) : M \in SUBSET ClaimFields}
    \cup {[HitWithout(M) EXCEPT !.content = c] :
             M \in {{}, {"summary"}}, c \in ContentValues}
    \cup {BareHit}

InitFormat ==
    /\ wsConfigured \in BOOLEAN
    /\ osConfigured = TRUE
    /\ route = "search"
    /\ body = [kind |-> "object", hasQuery |-> TRUE, hasConn |-> TRUE,
               query |-> "hello", connection_id |-> "c1"]
    /\ pc = [h |-> "format", f |-> "none"]
    /\ resp = NoResp
    /\ outcome = [embed |-> "vector", search |-> "ok"]
    /\ \E n \in 0..MaxFmtHits : hits \in [1..n -> FmtHits]
    /\ results = <<>>
    /\ message = NoMessage
    /\ calls = [embed |-> 1, search |-> 1, http |-> 1, dispatch |-> 0]
    /\ notifs = <<>>
    /\ ret = ""
    /\ LibIdle

NextFormat ==
    \/ PerformFormat("h")
    \/ SearchNotify
    \/ SearchRespond

SpecFormat == InitFormat /\ [][NextFormat]_vars

Formatted == route = "search" /\ pc.h \in {"notify", "respond", "done"}
TextOf(f) == IF f.st = "val" THEN f.v ELSE <<>>
\* a missing field becomes dflt, a present one is copied
DefaultedOrCopied(src, dst, dflt) ==
    IF src.st = "absent" THEN dst = Val(dflt) ELSE dst = src

\* C9: when no hit carries a null content, the formatter returns one record per
\* hit, in order: a missing title becomes "Untitled", a missing summary becomes
\* the first 200 characters of the content followed by "...", a missing
\* sentiment_label becomes "Unknown", a missing sentiment_score becomes 0, and
\* every field that is present is copied unchanged; hits with missing fields
\* and complete hits of one response are all kept.
C9_FormatterDefaults ==
    (Formatted /\ \A i \in DOMAIN hits : hits[i].content.st # "null") =>
        /\ Len(results) = Len(hits)
        /\ \A i \in DOMAIN hits :
            LET h == hits[i]
                r == results[i]
                c == TextOf(h.content)
                n == IF Len(c) < 200 THEN Len(c) ELSE 200
            IN  /\ DefaultedOrCopied(h.title, r.title, "Untitled")
                /\ DefaultedOrCopied(h.sentiment_label, r.sentiment.label, "Unknown")
                /\ DefaultedOrCopied(h.sentiment_score, r.sentiment.score, 0)
                /\ h.summary.st # "absent" => r.summary = h.summary
                /\ h.summary.st = "absent" =>
                       /\ r.summary.st = "val"
                       /\ Len(r.summary.v) = n + 3
                       /\ \A j \in 1..n : r.summary.v[j] = c[j]
                       /\ \A j \in (n + 1)..(n + 3) : r.summary.v[j] = 46
                /\ h.content.st # "absent" => r.content = h.content
                /\ h._score.st # "absent" => r.score = h._score
                /\ h.category.st # "absent" => r.category = h.category

\* C9 witness: a hit without summary whose content is longer than 200
\* characters, formatted together with a hit that has no field at all
C9_Witness ==
    /\ Formatted /\ Len(results) = 2
    /\ hits[1].summary.st = "absent" /\ Len(hits[1].content.v) > 200
    /\ hits[2] = BareHit

\* C11: the formatted result list is as long as the list of hits the search
\* service returned, and its i-th record is made from the i-th hit.
C11_SameLengthSameOrder ==
    Formatted =>
        /\ Len(results) = Len(hits)
        /\ \A i \in DOMAIN hits : results[i] = FormatHit(hits[i])

----------------------------------------------------------------------------
(* The message composition on its own: the background task has received    *)
(* the search response; the hits differ in their sentiment label           *)

ComposeKinds == {"POSITIVE", "NEGATIVE", "NEUTRAL", "none", "badscore"}

\* the i-th hit of a response, of kind k; scores descend with the rank
ComposeHit(k, i) ==
    [FullHit(IF k \in {"NEGATIVE", "NEUTRAL"} THEN k ELSE "POSITIVE") EXCEPT
        !.sentiment_label = IF k = "none" THEN Absent("") ELSE @,
        !.sentiment_score = IF k = "badscore" THEN Null(0) ELSE @,
        !._score = Val(1000 - i)]

InitCompose ==
    /\ wsConfigured = TRUE
    /\ osConfigured = TRUE
    /\ route = "process"
    /\ body = [kind |-> "object", hasQuery |-> TRUE, hasConn |-> TRUE,
               query |-> "hello", connection_id |-> "c1"]
    /\ pc = [h |-> "done", f |-> "format"]
    /\ resp = [code |-> 202, shape |-> "accepted", results |-> <<>>, total |-> 0]
    /\ outcome = [embed |-> "vector", search |-> "ok"]
    /\ \E n \in 0..MaxComposeHits : \E ks \in [1..n -> ComposeKinds] :
           hits = [i \in 1..n |-> ComposeHit(ks[i], i)]
    /\ results = <<>>
    /\ message = NoMessage
    /\ calls = [embed |-> 1, search |-> 1, http |-> 1, dispatch |-> 1]
    /\ notifs = <<Notification("processing", NoMessage, <<>>, "delivered")>>
    /\ ret = ""
    /\ LibIdle

NextCompose ==
    \/ PerformFormat("f")
    \/ FlowNoResults
    \/ FlowCompose
    \/ FlowSendComplete
    \/ FlowExcept

SpecCompose == InitCompose /\ [][NextCompose]_vars

Composed == pc.f \in {"complete", "done"} /\ message # NoMessage
Labelled(label) == {i \in DOMAIN results : results[i].sentiment.label = Val(label)}
SectionsNamed(name) ==
    {s \in DOMAIN message.sections : message.sections[s].name = name}
\* the k-th smallest element of S
Kth(S, k) == CHOOSE i \in S : Cardinality({j \in S : j < i}) = k - 1
\* section sec lists the first cap results among those at the positions S
ListsFirst(sec, S, cap) ==
    /\ Len(sec.items) = (IF Cardinality(S) < cap THEN Cardinality(S) ELSE cap)
    /\ \A k \in DOMAIN sec.items :
           LET r == results[Kth(S, k)]
           IN  /\ sec.items[k].i = k
               /\ sec.items[k].title = r.title
               /\ sec.items[k].summary = r.summary
               /\ sec.items[k].score = r.score

\* C5: the composed search_complete message has one "Positive Sentiment
\* Results" section iff some result is labelled POSITIVE and one "Negative
\* Sentiment Results" section iff some result is labelled NEGATIVE, each
\* listing the first min(3, group size) results of its group in result order,
\* and one "Top Results" section, listing the first min(5, n) results, iff no
\* result is labelled POSITIVE or NEGATIVE; it is the message the
\* search_complete notification carries.
C5_MessageSections ==
    Composed =>
        LET P == Labelled("POSITIVE")
            N == Labelled("NEGATIVE")
            sp == SectionsNamed("Positive Sentiment Results")
            sn == SectionsNamed("Negative Sentiment Results")
            st == SectionsNamed("Top Results")
        IN  /\ message.found = Len(results)
            /\ Cardinality(sp) = (IF P # {} THEN 1 ELSE 0)
            /\ Cardinality(sn) = (IF N # {} THEN 1 ELSE 0)
            /\ Cardinality(st) = (IF P = {} /\ N = {} THEN 1 ELSE 0)
            /\ Len(message.sections) = Cardinality(sp \cup sn \cup st)
            /\ \A s \in sp : ListsFirst(message.sections[s], P, 3)
            /\ \A s \in sn : ListsFirst(message.sections[s], N, 3)
            /\ \A s \in st : ListsFirst(message.sections[s], DOMAIN results, 5)
            /\ \A s \in sp, t \in sn : s < t
            /\ \A i \in WithStatus({"search_complete"}) :
                   notifs[i].message = message /\ notifs[i].results = results

\* C5 witness: four POSITIVE results and some NEGATIVE ones, sent as a message
\* whose positive section lists three
C5_Witness ==
    /\ Composed /\ ret = "success"
    /\ Cardinality(Labelled("POSITIVE")) = 4 /\ Labelled("NEGATIVE") # {}

----------------------------------------------------------------------------
(* bedrock_embeddings.py: one embedding call, and the batch loop over it.  *)
(* fn is the running call (name, arguments, locals), at its position,      *)
(* trace the outbound calls it has made and retval what it handed back.    *)

\* the request handlers are not running
AppIdle ==
    /\ wsConfigured = FALSE /\ osConfigured = FALSE
    /\ route = "none" /\ body = NoBody
    /\ pc = [h |-> "none", f |-> "none"]
    /\ resp = NoResp
    /\ outcome = [embed |-> "", search |-> ""]
    /\ hits = <<>> /\ results = <<>> /\ message = NoMessage
    /\ calls = NoCalls /\ notifs = <<>> /\ ret = ""

MaxTexts == 3
BatchTexts == {"a", "b"}

None == Null(<<>>)

\* what invoke_model does for one text: it raises, or answers a body whose
\* 'embedding' key is missing, null, an empty list or a vector
BedrockResponses ==
    {[raises |-> TRUE, embedding |-> Absent(<<>>)]} \cup
    {[raises |-> FALSE, embedding |-> e] :
        e \in {Absent(<<>>), None, Val(<<>>), Val(<<1, 2>>), Val(<<3>>)}}

\* Python truth value of response_body.get('embedding')
Truthy(embedding) == embedding.st = "val" /\ embedding.v # <<>>

\* the outcome of the model call as perform_semantic_search sees it
Kind(response) ==
    IF response.raises THEN "error"
    ELSE IF Truthy(response.embedding) THEN "vector" ELSE "novector"

\* the variant in which a response without a vector raises
get_bedrock_embedding_strict(text, response) ==
    IF response.raises \/ ~Truthy(Get(response.embedding, None))
    THEN [raised |-> TRUE, value |-> None]
    ELSE [raised |-> FALSE, value |-> response.embedding]

\* bedrock_embeddings.py get_bedrock_embedding: the vector if the response
\* has one, None if it has none; an exception of the model call is re-raised
bedrock_embeddings_get_bedrock_embedding(text, response) ==
    IF response.raises
    THEN [raised |-> TRUE, value |-> None]
    ELSE LET embedding == Get(response.embedding, None)
         IN  IF Truthy(embedding)
             THEN [raised |-> FALSE, value |-> embedding]
             ELSE [raised |-> FALSE, value |-> None]

\* app.py get_bedrock_embedding on the same response: whatever
\* response_body.get('embedding') is
app_get_bedrock_embedding(text, response) ==
    LET r == get_bedrock_embedding(Kind(response))
    IN  [raised |-> r.raised,
         value |-> IF r.raised THEN None ELSE Get(response.embedding, None)]

Attempt(text, response, r) ==
    [text |-> text, response |-> response, raised |-> r.raised, value |-> r.value]

EmbedNames == {"app.get_bedrock_embedding", "get_bedrock_embedding"}

InitBatch ==
    /\ AppIdle
    /\ \E name \in EmbedNames \cup {"get_bedrock_embedding_batch"}, n \in 0..MaxTexts :
         \E texts \in [1..n -> BatchTexts] :
            /\ name \in EmbedNames => n = 1
            /\ fn = [name |-> name, texts |-> texts, embeddings |-> <<>>]
    /\ at = "call"
    /\ trace = <<>>
    /\ retval = NoRet

\* one call of get_bedrock_embedding, either module's
EmbedCall ==
    /\ fn.name \in EmbedNames /\ at = "call"
    /\ \E response \in BedrockResponses :
        LET text == fn.texts[1]
            r == IF fn.name = "app.get_bedrock_embedding"
                 THEN app_get_bedrock_embedding(text, response)
                 ELSE bedrock_embeddings_get_bedrock_embedding(text, response)
        IN  /\ trace' = <<Attempt(text, response, r)>>
            /\ retval' = r
    /\ at' = "done"
    /\ UNCHANGED <<fn, appvars>>

\* the variant whose loop ends at the first failing item
BatchAttemptAborts ==
    /\ fn.name = "get_bedrock_embedding_batch" /\ at = "call"
    /\ Len(fn.embeddings) < Len(fn.texts)
    /\ \E response \in BedrockResponses :
        LET text == fn.texts[Len(fn.embeddings) + 1]
            r == bedrock_embeddings_get_bedrock_embedding(text, response)
        IN  /\ trace' = Append(trace, Attempt(text, response, r))
            /\ IF r.raised
               THEN /\ at' = "done"
                    /\ retval' = [raised |-> FALSE, value |-> fn.embeddings]
                    /\ UNCHANGED fn
               ELSE /\ fn' = [fn EXCEPT !.embeddings = Append(@, r.value)]
                    /\ UNCHANGED <<at, retval>>
    /\ UNCHANGED appvars

\* lines 64-71: one turn of the loop
BatchAttempt ==
    /\ fn.name = "get_bedrock_embedding_batch" /\ at = "call"
    /\ Len(fn.embeddings) < Len(fn.texts)
    /\ \E response \in BedrockResponses :
        LET text == fn.texts[Len(fn.embeddings) + 1]
            r == bedrock_embeddings_get_bedrock_embedding(text, response)
        IN  /\ trace' = Append(trace, Attempt(text, response, r))
            /\ fn' = [fn EXCEPT !.embeddings =
                         Append(@, IF r.raised THEN None ELSE r.value)]
    /\ UNCHANGED <<at, retval, appvars>>

\* line 73
BatchReturn ==
    /\ fn.name = "get_bedrock_embedding_batch" /\ at = "call"
    /\ Len(fn.embeddings) = Len(fn.texts)
    /\ retval' = [raised |-> FALSE, value |-> fn.embeddings]
    /\ at' = "done"
    /\ UNCHANGED <<fn, trace, appvars>>

NextBatch ==
    \/ EmbedCall
    \/ BatchAttempt
    \/ BatchReturn

SpecBatch == InitBatch /\ [][NextBatch]_vars

Attempts == {trace[i] : i \in DOMAIN trace}
Returned(name) == fn.name = name /\ at = "done"

\* C12 as stated: get_bedrock_embedding returns normally only with a vector;
\* a failing model call and a response without a vector both raise.
C12_VectorOrRaises ==
    \A a \in Attempts :
        /\ Kind(a.response) # "vector" => a.raised
        /\ ~a.raised => Truthy(a.value)

\* C12 amended: get_bedrock_embedding raises exactly when the model call
\* raises; it returns the response's vector when there is one, and returns
\* normally without a vector when the response has none.
C12_VectorNoneOrRaises ==
    /\ \A a \in Attempts :
        /\ a.raised <=> a.response.raises
        /\ Kind(a.response) = "vector" => a.value = a.response.embedding
        /\ Kind(a.response) = "novector" => ~a.raised /\ ~Truthy(a.value)
    /\ \A name \in EmbedNames :
        Returned(name) =>
            /\ Len(trace) = 1
            /\ retval = [raised |-> trace[1].raised, value |-> trace[1].value]
    /\ Returned("get_bedrock_embedding") /\ ~retval.raised =>
            retval.value = None \/ Truthy(retval.value)

\* C12 witness: the response had no vector and get_bedrock_embedding returned
\* None
C12_Witness ==
    /\ Returned("get_bedrock_embedding")
    /\ ~trace[1].response.raises /\ trace[1].response.embedding.st = "absent"
    /\ retval = [raised |-> FALSE, value |-> None]

\* C17: get_bedrock_embedding_batch attempts the texts once each in input
\* order; the list it returns is as long as the input, its i-th entry is the
\* i-th attempt's vector when that attempt got one and None when it did not;
\* no failure ends the loop early.
C17_BatchKeepsGoing ==
    fn.name = "get_bedrock_embedding_batch" =>
        /\ Len(trace) = Len(fn.embeddings) /\ Len(trace) <= Len(fn.texts)
        /\ \A i \in DOMAIN trace :
            /\ trace[i].text = fn.texts[i]
            /\ fn.embeddings[i] =
                  IF Kind(trace[i].response) = "vector"
                  THEN trace[i].response.embedding ELSE None
        /\ at = "call" => ENABLED (BatchAttempt \/ BatchReturn)
        /\ at = "done" =>
            /\ ~retval.raised
            /\ retval.value = fn.embeddings
            /\ Len(retval.value) = Len(fn.texts)

\* C17 witness: the first item failed and the second got its vector
C17_Witness ==
    /\ Returned("get_bedrock_embedding_batch")
    /\ Len(fn.texts) >= 2
    /\ trace[1].response.raises /\ retval.value[1] = None
    /\ Truthy(retval.value[2])

----------------------------------------------------------------------------
(* opensearch_client.py: the five OpenSearch operations, and app.py's copy *)
(* of the search.  Each is a function of whether the endpoint is           *)
(* configured, whether the session has credentials and what the server     *)
(* answers (http: the responses to its successive requests); it gives      *)
(* [raised, value, message, sent]: message is the text of the exception    *)
(* or of the error entry, sent the HTTP exchanges it made.                 *)

MaxDocs == 2

HttpStatuses == {200, 201, 403, 500}
HttpTexts == {"{...}", "denied"}

\* requests.Response.ok
Ok(response) == ~(400 <= response.status_code /\ response.status_code < 600)

Message(text) == [text |-> text, status_code |-> 0, body |-> ""]
\* f"OpenSearch query failed: {response.status_code} {response.text}"
QueryFailed(response) ==
    [text |-> "OpenSearch query failed: ",
     status_code |-> response.status_code, body |-> response.text]
NotConfigured == Message("OpenSearch endpoint not configured")
NoCredentials == Message("Unable to get AWS credentials")

Exchange(method, path, response) ==
    [method |-> method, path |-> path, response |-> response]

Returns(value, sent) ==
    [raised |-> FALSE, value |-> value, message |-> Message(""), sent |-> sent]
Raises(msg, sent) ==
    [raised |-> TRUE, value |-> <<>>, message |-> msg, sent |-> sent]

\* create_opensearch_index: the credentials check stands before the try
create_opensearch_index(endpoint, credentials, http) ==
    IF ~endpoint THEN Returns(FALSE, <<>>)
    ELSE IF ~credentials THEN Raises(NoCredentials, <<>>)
    ELSE Returns(Ok(http[1]), <<Exchange("PUT", "index", http[1])>>)

\* the variant of the search that answers no hits for a non-ok response
search_opensearch_by_embedding_lenient(endpoint, credentials, http) ==
    IF ~endpoint THEN Raises(NotConfigured, <<>>)
    ELSE IF ~credentials THEN Raises(NoCredentials, <<>>)
    ELSE Returns(IF Ok(http[1]) THEN http[1].json ELSE <<>>,
                 <<Exchange("POST", "_search", http[1])>>)

\* opensearch_client.py search_opensearch_by_embedding: every failure is
\* re-raised
opensearch_client_search_opensearch_by_embedding(endpoint, credentials, http) ==
    IF ~endpoint THEN Raises(NotConfigured, <<>>)
    ELSE IF ~credentials THEN Raises(NoCredentials, <<>>)
    ELSE IF ~Ok(http[1])
    THEN Raises(QueryFailed(http[1]), <<Exchange("POST", "_search", http[1])>>)
    ELSE Returns(http[1].json, <<Exchange("POST", "_search", http[1])>>)

\* app.py search_opensearch_by_embedding on the same inputs
app_search_opensearch_by_embedding(endpoint, credentials, http) ==
    LET r == search_opensearch_by_embedding(endpoint, credentials,
                 [ok |-> Ok(http[1]), hits |-> http[1].json])
        sent == IF r.requested
                THEN <<Exchange("POST", "_search", http[1])>> ELSE <<>>
    IN  IF r.raised
        THEN Raises(CASE r.error = "endpoint" -> NotConfigured
                      [] r.error = "credentials" -> NoCredentials
                      [] r.error = "http" -> QueryFailed(http[1]), sent)
        ELSE Returns(r.value, sent)

\* the variant of the upsert that lets its failures out
add_document_to_opensearch_raises(endpoint, credentials, http) ==
    IF ~endpoint THEN Raises(NotConfigured, <<>>)
    ELSE IF ~credentials THEN Raises(NoCredentials, <<>>)
    ELSE Returns(Ok(http[1]), <<Exchange("PUT", "_doc", http[1])>>)

\* add_document_to_opensearch: every failure is caught and answered False
add_document_to_opensearch(endpoint, credentials, http) ==
    IF ~endpoint \/ ~credentials THEN Returns(FALSE, <<>>)
    ELSE Returns(Ok(http[1]), <<Exchange("PUT", "_doc", http[1])>>)

\* lines 245-252: an index line with _id i, then the document, for each i
BulkBody(documents) ==
    [j \in 1..(2 * Len(documents)) |->
        IF j % 2 = 1 THEN [index |-> (j + 1) \div 2, doc |-> ""]
        ELSE [index |-> 0, doc |-> documents[j \div 2]]]

\* line 266: the items of the response whose index entry has an error
Errors(items) == {i \in DOMAIN items : items[i]}

\* the variant that looks at the HTTP status only
bulk_add_documents_status_only(documents, endpoint, credentials, http) ==
    IF ~endpoint \/ ~credentials THEN Returns(FALSE, <<>>)
    ELSE Returns(Ok(http[1]),
                 <<[method |-> "POST", path |-> "_bulk",
                    body |-> BulkBody(documents), response |-> http[1]]>>)

\* bulk_add_documents: True only for an ok response without item errors
bulk_add_documents(documents, endpoint, credentials, http) ==
    IF ~endpoint \/ ~credentials THEN Returns(FALSE, <<>>)
    ELSE Returns(Ok(http[1]) /\ Errors(http[1].json) = {},
                 <<[method |-> "POST", path |-> "_bulk",
                    body |-> BulkBody(documents), response |-> http[1]]>>)

\* one entry of the dict get_index_info returns
InfoEntry(response) ==
    IF Ok(response) THEN [error |-> "", content |-> response.json]
    ELSE [error |-> "Error: ", content |-> response.text]
NoEntry == [error |-> "", content |-> ""]

\* get_index_info: {"error": ...} without endpoint or credentials, else both
\* requests are made and each answer becomes an entry
get_index_info(endpoint, credentials, http) ==
    IF ~endpoint
    THEN [Returns([keys |-> {"error"}, error |-> NotConfigured,
                   stats |-> NoEntry, mapping |-> NoEntry], <<>>)
          EXCEPT !.message = NotConfigured]
    ELSE IF ~credentials
    THEN [Returns([keys |-> {"error"}, error |-> NoCredentials,
                   stats |-> NoEntry, mapping |-> NoEntry], <<>>)
          EXCEPT !.message = NoCredentials]
    ELSE Returns([keys |-> {"stats", "mapping"}, error |-> Message(""),
                  stats |-> InfoEntry(http[1]), mapping |-> InfoEntry(http[2])],
                 <<Exchange("GET", "_stats", http[1]),
                   Exchange("GET", "_mapping", http[2])>>)

ClientOps ==
    {"create_opensearch_index", "search_opensearch_by_embedding",
     "app.search_opensearch_by_embedding", "add_document_to_opensearch",
     "bulk_add_documents", "get_index_info"}

Documents(n) == [i \in 1..n |-> "doc"]

InitClient ==
    /\ AppIdle
    /\ \E name \in ClientOps, endpoint, credentials \in BOOLEAN, n \in 0..MaxDocs :
        /\ name # "bulk_add_documents" => n = 0
        /\ fn = [name |-> name, endpoint |-> endpoint,
                 credentials |-> credentials, documents |-> Documents(n)]
    /\ at = "call"
    /\ trace = <<>>
    /\ retval = NoRet

Response(status_code, text, json) ==
    [status_code |-> status_code, text |-> text, json |-> json]

\* the function returns or raises: r is what it hands to its caller
ClientReturn(r) ==
    /\ trace' = r.sent
    /\ retval' = [raised |-> r.raised, value |-> r.value, message |-> r.message]
    /\ at' = "done"
    /\ UNCHANGED <<fn, appvars>>

Calls(name) == fn.name = name /\ at = "call"

CreateIndex ==
    /\ Calls("create_opensearch_index")
    /\ \E s \in HttpStatuses, t \in HttpTexts :
        ClientReturn(create_opensearch_index(fn.endpoint, fn.credentials,
                                             <<Response(s, t, "")>>))

ClientSearch ==
    /\ Calls("search_opensearch_by_embedding")
    /\ \E s \in HttpStatuses, t \in HttpTexts, n \in 0..MaxHits :
        \E hs \in [1..n -> {BareHit, FullHit("POSITIVE")}] :
            ClientReturn(opensearch_client_search_opensearch_by_embedding(
                fn.endpoint, fn.credentials, <<Response(s, t, hs)>>))

AppSearch ==
    /\ Calls("app.search_opensearch_by_embedding")
    /\ \E s \in HttpStatuses, t \in HttpTexts, n \in 0..MaxHits :
        \E hs \in [1..n -> {BareHit, FullHit("POSITIVE")}] :
            ClientReturn(app_search_opensearch_by_embedding(
                fn.endpoint, fn.credentials, <<Response(s, t, hs)>>))

AddDocument ==
    /\ Calls("add_document_to_opensearch")
    /\ \E s \in HttpStatuses, t \in HttpTexts :
        ClientReturn(add_document_to_opensearch(fn.endpoint, fn.credentials,
                                                <<Response(s, t, "")>>))

\* the response has one item for each document sent
BulkAdd ==
    /\ Calls("bulk_add_documents")
    /\ \E s \in HttpStatuses, t \in HttpTexts :
        \E items \in [DOMAIN fn.documents -> BOOLEAN] :
            ClientReturn(bulk_add_documents(fn.documents, fn.endpoint,
                             fn.credentials, <<Response(s, t, items)>>))

IndexInfo ==
    /\ Calls("get_index_info")
    /\ \E s1, s2 \in HttpStatuses, t1, t2 \in HttpTexts :
        ClientReturn(get_index_info(fn.endpoint, fn.credentials,
            <<Response(s1, t1, "stats"), Response(s2, t2, "mapping")>>))

NextClient ==
    \/ CreateIndex
    \/ ClientSearch
    \/ AppSearch
    \/ AddDocument
    \/ BulkAdd
    \/ IndexInfo

SpecClient == InitClient /\ [][NextClient]_vars

SearchNames ==
    {"search_opensearch_by_embedding", "app.search_opensearch_by_embedding"}
Responses == {trace[i].response : i \in DOMAIN trace}
\* why the finished call failed, if it did
Cause ==
    IF ~fn.endpoint THEN "endpoint"
    ELSE IF ~fn.credentials THEN "credentials"
    ELSE IF \E response \in Responses : ~Ok(response) THEN "http"
    ELSE "none"

\* C13: search_opensearch_by_embedding raises when the endpoint is not
\* configured, when there are no credentials and when the response is not ok;
\* it sends no HTTP request in the first two cases, and in the third the
\* exception's message has the response's status code and body.  Otherwise
\* it returns the response's JSON.
C13_SearchFailsThreeWays ==
    (fn.name \in SearchNames /\ at = "done") =>
        /\ Cause = "endpoint" =>
              retval.raised /\ trace = <<>> /\ retval.message = NotConfigured
        /\ Cause = "credentials" =>
              retval.raised /\ trace = <<>> /\ retval.message = NoCredentials
        /\ Cause = "http" =>
              /\ retval.raised /\ Len(trace) = 1
              /\ retval.message.status_code = trace[1].response.status_code
              /\ retval.message.body = trace[1].response.text
        /\ Cause = "none" =>
              /\ ~retval.raised /\ Len(trace) = 1
              /\ retval.value = trace[1].response.json

\* C13 witness: the server answered 403 and the search raised
C13_Witness ==
    /\ fn.name = "search_opensearch_by_embedding" /\ at = "done"
    /\ Len(trace) = 1 /\ trace[1].response.status_code = 403
    /\ retval.raised /\ retval.message.body = "denied"

\* C15: bulk_add_documents answers True exactly when the endpoint is
\* configured, credentials exist, the response is ok and none of its items
\* has an error; one item with an error makes it answer False whatever the
\* other items are.
C15_BulkSuccess ==
    (fn.name = "bulk_add_documents" /\ at = "done") =>
        /\ ~retval.raised
        /\ retval.value <=>
              /\ Cause = "none" /\ Len(trace) = 1
              /\ \A i \in DOMAIN trace[1].response.json :
                    ~trace[1].response.json[i]
        /\ Cause \in {"endpoint", "credentials"} => trace = <<>>
        /\ Len(trace) = 1 =>
              /\ Len(trace[1].body) = 2 * Len(fn.documents)
              /\ \A i \in DOMAIN fn.documents :
                    /\ trace[1].body[2 * i - 1].index = i
                    /\ trace[1].body[2 * i].doc = fn.documents[i]

\* C15 witness: an ok response in which one item failed and another did not,
\* answered False
C15_Witness ==
    /\ fn.name = "bulk_add_documents" /\ at = "done"
    /\ Len(trace) = 1 /\ trace[1].response.status_code = 200
    /\ \E i, j \in DOMAIN trace[1].response.json :
          trace[1].response.json[i] /\ ~trace[1].response.json[j]
    /\ retval.value = FALSE

FourOps ==
    {"create_opensearch_index", "add_document_to_opensearch",
     "bulk_add_documents", "get_index_info"}

\* the operation called name, on the given configuration and answers
ClientCall(name, endpoint, credentials, http) ==
    CASE name = "create_opensearch_index" ->
            create_opensearch_index(endpoint, credentials, http)
      [] name = "search_opensearch_by_embedding" ->
            opensearch_client_search_opensearch_by_embedding(endpoint, credentials, http)
      [] name = "add_document_to_opensearch" ->
            add_document_to_opensearch(endpoint, credentials, http)
      [] name = "bulk_add_documents" ->
            bulk_add_documents(<<>>, endpoint, credentials, http)
      [] name = "get_index_info" ->
            get_index_info(endpoint, credentials, http)

\* how a caller learns of the failure
Way(r) == IF r.raised THEN "raises" ELSE "returns"

\* a non-ok response the finished call got, given to every request
FailedAnswers ==
    IF \E response \in Responses : ~Ok(response)
    THEN LET failed == CHOOSE response \in Responses : ~Ok(response)
         IN  <<failed, failed>>
    ELSE <<>>

Failed(name) == fn.name = name /\ at = "done" /\ Cause # "none"

\* C14 as stated: for each of the three causes, index creation, single and
\* bulk upsert and index introspection report the failure to their caller in
\* the way the search does, and in the same way as one another.
C14_SameFailureReport ==
    \A name \in FourOps :
        Failed(name) =>
            \A other \in FourOps \cup {"search_opensearch_by_embedding"} :
                Way(ClientCall(other, fn.endpoint, fn.credentials, FailedAnswers))
                    = Way(retval)

\* C14 amended: none of the four sends a request without endpoint or
\* credentials, but they report failures differently.  Single and bulk upsert
\* answer False for all three causes.  Index creation answers False without
\* endpoint and for a non-ok response, and raises without credentials.  Index
\* introspection answers {"error": message} without endpoint or credentials,
\* and for a non-ok response its usual dict, in which the entry of that
\* response is "Error: " and the response body.
C14_FailureReports ==
    /\ \A name \in FourOps :
        (Failed(name) /\ Cause # "http") => trace = <<>>
    /\ \A name \in {"add_document_to_opensearch", "bulk_add_documents"} :
        Failed(name) => ~retval.raised /\ retval.value = FALSE
    /\ Failed("create_opensearch_index") =>
        IF Cause = "credentials"
        THEN retval.raised /\ retval.message = NoCredentials
        ELSE ~retval.raised /\ retval.value = FALSE
    /\ Failed("get_index_info") =>
        /\ ~retval.raised
        /\ Cause = "endpoint" =>
              retval.value.keys = {"error"} /\ retval.value.error = NotConfigured
        /\ Cause = "credentials" =>
              retval.value.keys = {"error"} /\ retval.value.error = NoCredentials
        /\ Cause = "http" =>
              /\ retval.value.keys = {"stats", "mapping"} /\ Len(trace) = 2
              /\ retval.value.stats = InfoEntry(trace[1].response)
              /\ retval.value.mapping = InfoEntry(trace[2].response)
              /\ \E e \in {retval.value.stats, retval.value.mapping} :
                    e.error = "Error: " /\ e.content \in HttpTexts

\* C14 witness: index creation without credentials raised
C14_Witness ==
    /\ Failed("create_opensearch_index") /\ Cause = "credentials"
    /\ retval.raised

----------------------------------------------------------------------------
(* llm_summarize_from_opensearch.py: llm_summarize, one step per action.   *)
(* It has no try: an exception of a step leaves llm_summarize.             *)

NoPrompt == [template |-> "", snippets |-> <<>>]

\* the body of a search response: {"hits": {"hits": [...]}}, or one of the
\* two keys missing
SearchJson(shape, hs) ==
    CASE shape = "hits" -> [hits |-> Val([hits |-> Val(hs)])]
      [] shape = "no inner hits" -> [hits |-> Val([hits |-> Absent(<<>>)])]
      [] shape = "no hits" -> [hits |-> Absent([hits |-> Absent(<<>>)])]

\* line 72: results.get('hits', {}).get('hits', [])
ResultHits(json) ==
    LET outer == Get(json.hits, Val([hits |-> Absent(<<>>)]))
    IN  Get(outer.v.hits, Val(<<>>)).v

\* format_snippets_for_prompt: snippet i+1 of hit i, with '' for missing keys
format_snippets_for_prompt(snippets) ==
    [i \in DOMAIN snippets |->
        [n |-> i,
         sentiment |-> Get(snippets[i].sentiment_label, Val("")),
         title |-> Get(snippets[i].title, Val("")),
         summary |-> Get(snippets[i].summary, Val(<<>>)),
         content |-> Get(snippets[i].content, Val(<<>>))]]

\* template.render(snippets=snippets_text)
Render(snippets_text) ==
    [template |-> "llm_prompt_template.j2", snippets |-> snippets_text]

\* lines 23-38: the request body for a Titan text model, or for another model
LlmBody(prompt, titan) ==
    IF titan
    THEN [schema |-> "inputText", text |-> prompt, maxTokens |-> 1024]
    ELSE [schema |-> "prompt", text |-> prompt, maxTokens |-> 1024]

\* what the text-generation model does: it raises, or answers a body with
\* some of the keys results, completion, outputText
LlmResponses ==
    {[raises |-> TRUE, results |-> Absent(<<>>), completion |-> Absent(""),
      outputText |-> Absent("")]} \cup
    {[raises |-> FALSE, results |-> r, completion |-> c, outputText |-> o] :
        r \in {Absent(<<>>), Val(<<>>), Val(<<[outputText |-> Absent("")]>>),
               Val(<<[outputText |-> Val("titan text")]>>)},
        c \in {Absent(""), Val(""), Val("completion text")},
        o \in {Absent(""), Val("output text")}}

NoText == Null("")

\* lines 46-50 on the response body
Completion(response) ==
    IF response.results.st = "val" /\ response.results.v # <<>>
    THEN Get(response.results.v[1].outputText, Val(""))
    ELSE IF response.completion.st = "val" /\ response.completion.v # ""
    THEN response.completion
    ELSE Get(response.outputText, NoText)

\* get_bedrock_llm_response: one invoke_model call; its exceptions are not
\* caught
get_bedrock_llm_response(prompt, titan, response) ==
    IF response.raises
    THEN [raised |-> TRUE, value |-> NoText]
    ELSE [raised |-> FALSE, value |-> Completion(response)]

\* line 83: f'{llm_response}'
FString(x) == IF x.st = "val" THEN x.v ELSE "None"

NoResults == "No relevant results found."

InitSummarize ==
    /\ AppIdle
    /\ \E query \in Queries, endpoint, credentials, titan \in BOOLEAN :
        fn = [name |-> "llm_summarize", query |-> query, endpoint |-> endpoint,
              credentials |-> credentials, titan |-> titan,
              embedding |-> None, hits |-> <<>>, prompt |-> NoPrompt]
    /\ at = "embed"
    /\ trace = <<>>
    /\ retval = NoRet

\* an exception leaves llm_summarize
SummarizeRaise ==
    /\ at' = "done"
    /\ retval' = [raised |-> TRUE, value |-> ""]
    /\ UNCHANGED fn

SummarizeReturn(text) ==
    /\ at' = "done"
    /\ retval' = [raised |-> FALSE, value |-> text]

\* line 69
SummarizeEmbed ==
    /\ fn.name = "llm_summarize" /\ at = "embed"
    /\ \E response \in BedrockResponses :
        LET r == bedrock_embeddings_get_bedrock_embedding(fn.query, response)
        IN  /\ trace' = Append(trace, [step |-> "embed", response |-> response])
            /\ IF r.raised
               THEN SummarizeRaise
               ELSE /\ fn' = [fn EXCEPT !.embedding = r.value]
                    /\ at' = "search"
                    /\ UNCHANGED retval
    /\ UNCHANGED appvars

\* the variant that goes on to the prompt whatever the search returned
SummarizeSearchAlwaysRenders ==
    /\ fn.name = "llm_summarize" /\ at = "search"
    /\ \E s \in HttpStatuses, t \in HttpTexts, n \in 0..MaxHits,
          shape \in {"hits", "no inner hits", "no hits"} :
        \E hs \in [1..n -> {BareHit, FullHit("POSITIVE")}] :
            LET r == opensearch_client_search_opensearch_by_embedding(
                         fn.endpoint, fn.credentials,
                         <<Response(s, t, SearchJson(shape, hs))>>)
            IN  /\ trace' = Append(trace, [step |-> "search", sent |-> r.sent])
                /\ IF r.raised
                   THEN SummarizeRaise
                   ELSE /\ fn' = [fn EXCEPT !.hits = ResultHits(r.value)]
                        /\ at' = "render"
                        /\ UNCHANGED retval
    /\ UNCHANGED appvars

\* lines 71-74
SummarizeSearch ==
    /\ fn.name = "llm_summarize" /\ at = "search"
    /\ \E s \in HttpStatuses, t \in HttpTexts, n \in 0..MaxHits,
          shape \in {"hits", "no inner hits", "no hits"} :
        \E hs \in [1..n -> {BareHit, FullHit("POSITIVE")}] :
            LET r == opensearch_client_search_opensearch_by_embedding(
                         fn.endpoint, fn.credentials,
                         <<Response(s, t, SearchJson(shape, hs))>>)
            IN  /\ trace' = Append(trace, [step |-> "search", sent |-> r.sent])
                /\ IF r.raised
                   THEN SummarizeRaise
                   ELSE LET found == ResultHits(r.value)
                        IN  /\ fn' = [fn EXCEPT !.hits = found]
                            /\ IF found = <<>>
                               THEN SummarizeReturn(NoResults)
                               ELSE at' = "render" /\ UNCHANGED retval
    /\ UNCHANGED appvars

\* lines 76-81
SummarizeRender ==
    /\ fn.name = "llm_summarize" /\ at = "render"
    /\ fn' = [fn EXCEPT !.prompt = Render(format_snippets_for_prompt(fn.hits))]
    /\ trace' = Append(trace, [step |-> "render"])
    /\ at' = "generate"
    /\ UNCHANGED <<retval, appvars>>

\* lines 82-83
SummarizeGenerate ==
    /\ fn.name = "llm_summarize" /\ at = "generate"
    /\ \E response \in LlmResponses :
        LET r == get_bedrock_llm_response(fn.prompt, fn.titan, response)
        IN  /\ trace' = Append(trace, [step |-> "generate",
                                       body |-> LlmBody(fn.prompt, fn.titan),
                                       response |-> response])
            /\ IF r.raised
               THEN SummarizeRaise
               ELSE SummarizeReturn(FString(r.value)) /\ UNCHANGED fn
    /\ UNCHANGED appvars

NextSummarize ==
    \/ SummarizeEmbed
    \/ SummarizeSearch
    \/ SummarizeRender
    \/ SummarizeGenerate

SpecSummarize == InitSummarize /\ [][NextSummarize]_vars

Steps == [i \in DOMAIN trace |-> trace[i].step]
StepOrder == <<"embed", "search", "render", "generate">>
Summarized == fn.name = "llm_summarize" /\ at = "done" /\ ~retval.raised

\* C16: llm_summarize embeds, then searches, then, only when the search
\* returned at least one hit, renders the prompt from the hits and makes one
\* text-generation call with it, and returns the text of the model's answer;
\* when the search returns no hits it returns "No relevant results found."
\* and has made no text-generation call.
C16_SummarizeOrder ==
    fn.name = "llm_summarize" =>
        /\ Len(Steps) <= 4 /\ Steps = SubSeq(StepOrder, 1, Len(Steps))
        /\ Len(Steps) >= 3 =>
              /\ fn.hits # <<>>
              /\ fn.prompt.snippets = format_snippets_for_prompt(fn.hits)
        /\ Len(Steps) = 4 => trace[4].body.text = fn.prompt
        /\ (Summarized /\ fn.hits = <<>>) =>
              retval.value = NoResults /\ Steps = <<"embed", "search">>
        /\ (Summarized /\ fn.hits # <<>>) =>
              /\ Len(Steps) = 4
              /\ LET response == trace[4].response
                 IN  /\ response.results = Val(<<[outputText |-> Val("titan text")]>>)
                            => retval.value = "titan text"
                     /\ (response.results.st = "absent"
                            /\ response.completion = Val("completion text"))
                            => retval.value = "completion text"
        /\ (at = "done" /\ retval.raised) =>
              \/ Steps = <<"embed">> /\ trace[1].response.raises
              \/ Steps = <<"embed", "search">>
              \/ Len(Steps) = 4 /\ trace[4].response.raises

\* C16 witness: the search found hits and the model's completion came back
C16_Witness ==
    /\ Summarized /\ Len(fn.hits) = 2 /\ Len(Steps) = 4
    /\ retval.value = "completion text"

====
